---- MODULE Spec2Model ----
(***************************************************************************)
(* Model of the epomo pomodoro timer (src/src/app.rs).                     *)
(*                                                                         *)
(* The program is one object, EpomoApp, and one handler, EpomoApp::update, *)
(* which the GUI host calls once per frame.  A frame draws the three       *)
(* sliders and the two buttons (handling at most one user input, enabled   *)
(* or not according to the state at that point of the frame) and then runs *)
(* the countdown.  Every action below is one whole frame: the input part   *)
(* followed by the countdown part.                                         *)
(*                                                                         *)
(* Time is counted in whole seconds.  Utc::now() is read once per frame    *)
(* (the reads of one frame fall in the same second).                       *)
(***************************************************************************)
EXTENDS Integers, Sequences, FiniteSets, TLC

\* ---------------------------------------------------------------- bounds
MaxTime == 125          \* last clock reading explored by Spec
MaxRunTime == 1600      \* last clock reading explored by SpecRun
MaxStored == 3          \* largest session_count found in a stored record
MaxStoreTime == 61      \* last clock reading explored by SpecStore
MaxRemaining == 3700    \* longest time left at the start of SpecFormat
MaxFormatTime == 3601   \* last clock reading explored by SpecFormat
MaxLiveTime == 125      \* last clock reading explored by SpecLive

\* ------------------------------------------------------- PomodoroMode
PomodoroMode == {"LongBreak", "ShortBreak", "Work"}

\* Option<T>: None is the empty sequence, Some(x) is <<x>>
None == << >>
Some(x) == << x >>
is_none(o) == o = None
is_some(o) == o # None
unwrap(o) == o[1]

\* chrono::Duration::minutes(n), in seconds
Minutes(n) == n * 60

\* the Interval slider with a range one too wide at both ends
IntervalRange_wide == 0..121

\* slider ranges (egui::Slider::new(value, 1..=N))
IntervalRange == 1..120
ShortBreakRange == 1..30
LongBreakRange == 1..120

\* values the user drags a slider to
SliderValues == {1, 2}

\* clock advance between two frames, in seconds
Steps == {0, 30, 31}

VARIABLES
    interval_period,        \* i64, minutes
    long_break_period,      \* i64, minutes
    short_break_period,     \* i64, minutes
    session_count,          \* usize
    current_mode,           \* PomodoroMode
    ends_at,                \* Option<DateTime<Utc>>
    now,                    \* the clock reading of the latest frame
    time_left,              \* Option: the local time_left of the latest frame
    input,                  \* the user input the latest frame handled,
                            \* "new" when the app has just been constructed
    storage,                \* what the host's storage holds under APP_KEY
    repaint,                \* the repaints the latest frame requested
    rendered                \* Option: the countdown label the latest frame drew

vars == << interval_period, long_break_period, short_break_period,
           session_count, current_mode, ends_at, now, time_left, input,
           storage, repaint, rendered >>

\* The fields of EpomoApp as one record
App == [ interval_period |-> interval_period,
         long_break_period |-> long_break_period,
         short_break_period |-> short_break_period,
         session_count |-> session_count,
         current_mode |-> current_mode,
         ends_at |-> ends_at ]

\* impl Default for EpomoApp
Default == [ interval_period |-> 25,
             long_break_period |-> 15,
             short_break_period |-> 5,
             session_count |-> 0,
             current_mode |-> "Work",
             ends_at |-> None ]

\* the fields serde writes and reads (the others are #[serde(skip)])
PersistedFields ==
    {"interval_period", "long_break_period", "short_break_period", "session_count"}

\* Records a previous run of the program saved: the four persisted fields.
StoredRecords == [ interval_period : SliderValues,
                   long_break_period : SliderValues,
                   short_break_period : SliderValues,
                   session_count : 0..MaxStored ]

\* What EpomoApp::new can find: no storage at all (cc.storage is None), a
\* storage without a value under APP_KEY, a value that does not deserialize,
\* or a record f (a function from some of the persisted fields to values).
NoStorage == [kind |-> "no_storage"]
EmptyStore == [kind |-> "empty"]
CorruptStore == [kind |-> "corrupt"]
RecordStore(f) == [kind |-> "record", fields |-> f]

\* the stored records with periods of one minute
OneMinuteRecords ==
    { q \in StoredRecords : /\ q.interval_period = 1
                            /\ q.short_break_period = 1
                            /\ q.long_break_period = 1 }

\* a record of an older version: some of the fields are missing
PartialRecords ==
    { [n \in D |-> r[n]] : r \in OneMinuteRecords, D \in SUBSET PersistedFields }

\* #[serde(default)]: a field missing from the record comes from Default
Field(f, n) == IF n \in DOMAIN f THEN f[n] ELSE Default[n]

\* deserialization without #[serde(default)]: a missing field is an error,
\* and the whole record is replaced by Default
Loaded_strict(f) ==
    IF DOMAIN f = PersistedFields
    THEN [ interval_period |-> f["interval_period"],
           long_break_period |-> f["long_break_period"],
           short_break_period |-> f["short_break_period"],
           session_count |-> f["session_count"],
           current_mode |-> Default.current_mode,
           ends_at |-> Default.ends_at ]
    ELSE Default

\* the deserialized EpomoApp: the stored fields, the skipped fields
\* (current_mode, ends_at) from Default
Loaded(f) == [ interval_period |-> Field(f, "interval_period"),
               long_break_period |-> Field(f, "long_break_period"),
               short_break_period |-> Field(f, "short_break_period"),
               session_count |-> Field(f, "session_count"),
               current_mode |-> Default.current_mode,
               ends_at |-> Default.ends_at ]

\* eframe::get_value(storage, APP_KEY): None unless the value deserializes
get_value(s) == IF s.kind = "record" THEN Some(Loaded(s.fields)) ELSE None

\* Option::unwrap_or_default
unwrap_or_default(o) == IF is_some(o) THEN unwrap(o) ELSE Default

\* EpomoApp::new
new(s) == IF s.kind # "no_storage" THEN unwrap_or_default(get_value(s)) ELSE Default

\* serialization that leaves session_count out
Serialized_nocount(a) ==
    [n \in PersistedFields \ {"session_count"} |-> a[n]]

\* the serialized EpomoApp: every field that is not #[serde(skip)]
Serialized(a) == [n \in PersistedFields |-> a[n]]

\* EpomoApp::save: eframe::set_value(storage, APP_KEY, self)
save(a) == RecordStore(Serialized(a))

\* get_mode with the two break branches swapped
get_mode_swapped(cur_mode, count) ==
    IF cur_mode = "Work"
    THEN IF count % 4 = 0 THEN "ShortBreak" ELSE "LongBreak"
    ELSE "Work"

\* fn get_mode(cur_mode, session_count)
get_mode(cur_mode, count) ==
    IF cur_mode = "Work"
    THEN IF count % 4 = 0 THEN "LongBreak" ELSE "ShortBreak"
    ELSE "Work"

\* the Interval slider never disabled
IntervalSliderEnabled_always(a) == TRUE

\* the Long break slider testing the wrong mode
LongBreakSliderEnabled_short(a) == a.current_mode # "ShortBreak"

\* enabled flags of the widgets, from the state a at that point of the frame
IntervalSliderEnabled(a) == is_none(a.ends_at) \/ a.current_mode # "Work"
ShortBreakSliderEnabled(a) == a.current_mode # "ShortBreak"
LongBreakSliderEnabled(a) == a.current_mode # "LongBreak"
StartEnabled(a) == is_none(a.ends_at)
StopEnabled(a) == is_some(a.ends_at)

\* a Start that also goes back to Work
StartClicked_work(a, t) ==
    [a EXCEPT !.ends_at = Some(t + Minutes(a.interval_period)),
              !.current_mode = "Work"]

\* the Start button's click handler at clock reading t
StartClicked(a, t) == [a EXCEPT !.ends_at = Some(t + Minutes(a.interval_period))]

\* a Stop that pauses: the deadline is cleared, the count is kept
StopClicked_keep(a) == [a EXCEPT !.ends_at = None]

\* the Stop button's click handler
StopClicked(a) == [a EXCEPT !.ends_at = None, !.session_count = 0]

\* the elapsed test with the comparison reversed
Elapsed_reversed(a, t) == is_some(a.ends_at) /\ unwrap(a.ends_at) - t > 0

\* the elapsed test with <= instead of <
Elapsed_le(a, t) == is_some(a.ends_at) /\ unwrap(a.ends_at) - t <= 0

\* time_left < chrono::Duration::seconds(0)
Elapsed(a, t) == is_some(a.ends_at) /\ unwrap(a.ends_at) - t < 0

\* the increment without its "current_mode == Work" test
Incremented_always(a) == a.session_count + 1

\* the session_count after the "if *current_mode == Work" increment
Incremented(a) ==
    IF a.current_mode = "Work" THEN a.session_count + 1 ELSE a.session_count

\* the period the match on the new mode picks
PeriodOf(a, mode) ==
    CASE mode = "LongBreak" -> a.long_break_period
      [] mode = "ShortBreak" -> a.short_break_period
      [] mode = "Work" -> a.interval_period

\* a transition that measures the new deadline from the old one
Transition_from_deadline(a, t) ==
    LET count == IF a.current_mode = "Work" THEN a.session_count + 1 ELSE a.session_count
        mode == IF a.current_mode = "Work"
                THEN IF count % 4 = 0 THEN "LongBreak" ELSE "ShortBreak"
                ELSE "Work"
        period == CASE mode = "LongBreak" -> a.long_break_period
                    [] mode = "ShortBreak" -> a.short_break_period
                    [] mode = "Work" -> a.interval_period
    IN  [a EXCEPT !.session_count = count,
                  !.current_mode = mode,
                  !.ends_at = Some(unwrap(a.ends_at) + Minutes(period))]

\* the transition taken when the interval has elapsed
Transition(a, t) ==
    LET count == Incremented(a)
        mode == get_mode(a.current_mode, count)
    IN  [a EXCEPT !.session_count = count,
                  !.current_mode = mode,
                  !.ends_at = Some(t + Minutes(PeriodOf(a, mode)))]

\* a Countdown that catches up one missed interval, measuring from the
\* old deadline
Countdown_catch_up(a, t) ==
    IF Elapsed(a, t)
    THEN LET b == Transition_from_deadline(a, t)
         IN  IF Elapsed(b, t) THEN Transition_from_deadline(b, t) ELSE b
    ELSE a

\* the "Countdown" block of update at clock reading t
Countdown(a, t) == IF Elapsed(a, t) THEN Transition(a, t) ELSE a

\* the local time_left of the Countdown block
TimeLeft(a, t) == IF is_some(a.ends_at) THEN Some(unwrap(a.ends_at) - t) ELSE None

\* Rust's integer division and remainder: the quotient is truncated toward
\* zero and the remainder has the sign of the dividend
Quotient(x, y) == IF x >= 0 THEN x \div y ELSE -((-x) \div y)
Remainder(x, y) == x - y * Quotient(x, y)

\* chrono::Duration::num_hours, num_minutes, num_seconds of d seconds
num_hours(d) == Quotient(d, 3600)
num_minutes(d) == Quotient(d, 60)
num_seconds(d) == d

\* the decimal digits of a natural number, as a sequence of characters
RECURSIVE Decimal(_)
Decimal(n) ==
    LET digit == << "0", "1", "2", "3", "4", "5", "6", "7", "8", "9" >>[(n % 10) + 1]
    IN  IF n < 10 THEN << digit >> ELSE Decimal(n \div 10) \o << digit >>

\* "{:02}" of an integer: sign, digits, zero-padded to two characters
Pad2(n) ==
    LET text == IF n < 0 THEN << "-" >> \o Decimal(-n) ELSE Decimal(n)
    IN  IF Len(text) < 2 THEN << "0" >> \o text ELSE text

\* impl Display for PomodoroMode
Display(mode) ==
    CASE mode = "LongBreak" -> "Long break"
      [] mode = "ShortBreak" -> "Short break"
      [] mode = "Work" -> "Work"

\* impl From<PomodoroMode> for egui::Color32, as (r, g, b)
Color32(mode) ==
    CASE mode = "LongBreak" -> << 240, 140, 58 >>
      [] mode = "ShortBreak" -> << 240, 231, 58 >>
      [] mode = "Work" -> << 58, 191, 240 >>

\* format_duration with the minutes reduced modulo 60
format_duration_mod(duration, mode) ==
    [ hours |-> Pad2(num_hours(duration)),
      minutes |-> Pad2(Remainder(num_minutes(duration), 60)),
      seconds |-> Pad2(Remainder(num_seconds(duration), 60)),
      mode |-> Display(mode) ]

\* fn format_duration(duration, mode): the text "HH:MM:SS mode", kept as
\* its four parts
format_duration(duration, mode) ==
    [ hours |-> Pad2(num_hours(duration)),
      minutes |-> Pad2(num_minutes(duration)),
      seconds |-> Pad2(Remainder(num_seconds(duration), 60)),
      mode |-> Display(mode) ]

\* a label that shows the time left after the transition
Label_after(a, b, t) ==
    IF is_some(a.ends_at)
    THEN Some([ text |-> format_duration(unwrap(b.ends_at) - t, b.current_mode),
                color |-> Color32(b.current_mode) ])
    ELSE None

\* the countdown label of a frame: a is the state before the Countdown
\* block and b the state after it
Label(a, b, t) ==
    IF is_some(a.ends_at)
    THEN Some([ text |-> format_duration(unwrap(a.ends_at) - t, b.current_mode),
                color |-> Color32(b.current_mode) ])
    ELSE None

\* no repaint requested: the state of the requests before the first frame
NoRepaint == [now |-> FALSE, after |-> None]

\* the request of line 193 placed inside the "if ends_at.is_some()" block
Repaints_running_only(a, t) ==
    [ now |-> Elapsed(a, t),
      after |-> IF is_some(a.ends_at) THEN Some(1) ELSE None ]

\* the requests of one frame: ctx.request_repaint() in the transition,
\* ctx.request_repaint_after(Duration::from_secs(1)) at the end of the frame
Repaints(a, t) == [ now |-> Elapsed(a, t), after |-> Some(1) ]

\* One frame: a is the state after the input part, t the clock reading
Frame(a, t, in) ==
    LET b == Countdown(a, t)
    IN  /\ interval_period' = b.interval_period
        /\ long_break_period' = b.long_break_period
        /\ short_break_period' = b.short_break_period
        /\ session_count' = b.session_count
        /\ current_mode' = b.current_mode
        /\ ends_at' = b.ends_at
        /\ now' = t
        /\ time_left' = TimeLeft(a, t)
        /\ input' = in
        /\ storage' = storage
        /\ repaint' = Repaints(a, t)
        /\ rendered' = Label(a, b, t)

\* ------------------------------------------------------------- frames
\* a frame without user input
Poll(t) == Frame(App, t, "none")

\* a frame in which the user drags the "Interval time" slider to v
EditInterval(t, v) ==
    /\ IntervalSliderEnabled(App)
    /\ v \in IntervalRange /\ v # interval_period
    /\ Frame([App EXCEPT !.interval_period = v], t, "interval")

\* a frame in which the user drags the "Short break time" slider to v
EditShortBreak(t, v) ==
    /\ ShortBreakSliderEnabled(App)
    /\ v \in ShortBreakRange /\ v # short_break_period
    /\ Frame([App EXCEPT !.short_break_period = v], t, "short_break")

\* a frame in which the user drags the "Long break time" slider to v
EditLongBreak(t, v) ==
    /\ LongBreakSliderEnabled(App)
    /\ v \in LongBreakRange /\ v # long_break_period
    /\ Frame([App EXCEPT !.long_break_period = v], t, "long_break")

\* a frame in which the user clicks Start
Start(t) ==
    /\ StartEnabled(App)
    /\ Frame(StartClicked(App, t), t, "start")

\* a frame in which the user clicks Stop
Stop(t) ==
    /\ StopEnabled(App)
    /\ Frame(StopClicked(App), t, "stop")

\* --------------------------------------------------------------- Spec
\* storages holding a record with periods of one minute
LiveStores == { RecordStore(r) : r \in OneMinuteRecords }

\* what the storage holds when the program is launched: nothing, or a
\* record with periods of one minute (the sliders give the other periods)
Stores == {EmptyStore} \cup LiveStores

\* the app constructed from the storage s, before its first frame
Launched(s) ==
    /\ storage = s
    /\ LET a == new(s) IN
        /\ interval_period = a.interval_period
        /\ long_break_period = a.long_break_period
        /\ short_break_period = a.short_break_period
        /\ session_count = a.session_count
        /\ current_mode = a.current_mode
        /\ ends_at = a.ends_at
    /\ now = 0
    /\ time_left = None
    /\ input = "new"
    /\ repaint = NoRepaint
    /\ rendered = None

Init == \E s \in Stores : Launched(s)

\* clock readings of the next frame
Clock == { t \in { now + s : s \in Steps } : t <= MaxTime }

PollFrame == \E t \in Clock : Poll(t)
EditIntervalFrame == \E t \in Clock, v \in SliderValues : EditInterval(t, v)
EditShortBreakFrame == \E t \in Clock, v \in SliderValues : EditShortBreak(t, v)
EditLongBreakFrame == \E t \in Clock, v \in SliderValues : EditLongBreak(t, v)
StartFrame == \E t \in Clock : Start(t)
StopFrame == \E t \in Clock : Stop(t)

Next ==
    \/ PollFrame
    \/ EditIntervalFrame
    \/ EditShortBreakFrame
    \/ EditLongBreakFrame
    \/ StartFrame
    \/ StopFrame

Spec == Init /\ [][Next]_vars

\* ------------------------------------------------------------ SpecRun
\* A run that is never stopped: the program starts with session_count = 0
\* (no stored record, or one with no completed session), the user never
\* clicks Stop, and frames happen at the same instant as the previous one,
\* exactly at the deadline, one second after it, or two minutes and five seconds after it.
RunSteps == {0, 1, 125}

RunInit == Launched(EmptyStore)

RunClock ==
    { t \in {now} \cup (IF is_some(ends_at)
                         THEN { unwrap(ends_at) + s : s \in RunSteps }
                         ELSE {}) : t <= MaxRunTime }

RunPollFrame == \E t \in RunClock : Poll(t)
RunEditIntervalFrame == \E t \in RunClock, v \in SliderValues : EditInterval(t, v)
RunEditShortBreakFrame == \E t \in RunClock, v \in SliderValues : EditShortBreak(t, v)
RunEditLongBreakFrame == \E t \in RunClock, v \in SliderValues : EditLongBreak(t, v)
RunStartFrame == \E t \in RunClock : Start(t)

RunNext ==
    \/ RunPollFrame
    \/ RunEditIntervalFrame
    \/ RunEditShortBreakFrame
    \/ RunEditLongBreakFrame
    \/ RunStartFrame

SpecRun == RunInit /\ [][RunNext]_vars

\* ---------------------------------------------------------- SpecStore
\* The program with its storage: frames, the host saving the app (on
\* shutdown and on autosave), and the program being launched again.
\* Frames and launches happen at the same instant as the step before or a
\* minute and a second later.
StoreSteps == {0, 61}

StoreClock == { t \in { now + s : s \in StoreSteps } : t <= MaxStoreTime }

\* the host calls EpomoApp::save (only when there is a storage)
Save ==
    /\ storage # NoStorage
    /\ storage' = save(App)
    /\ UNCHANGED << interval_period, long_break_period, short_break_period,
                    session_count, current_mode, ends_at, now, time_left, input,
                    repaint, rendered >>

\* the program is launched again at clock reading t: EpomoApp::new
Relaunch(t) ==
    LET a == new(storage) IN
    /\ interval_period' = a.interval_period
    /\ long_break_period' = a.long_break_period
    /\ short_break_period' = a.short_break_period
    /\ session_count' = a.session_count
    /\ current_mode' = a.current_mode
    /\ ends_at' = a.ends_at
    /\ now' = t
    /\ time_left' = None
    /\ input' = "new"
    /\ storage' = storage
    /\ repaint' = NoRepaint
    /\ rendered' = None

AllStores ==
    {NoStorage, EmptyStore, CorruptStore} \cup { RecordStore(f) : f \in PartialRecords }

\* values the user tries to drag a slider to, some of them past its ends
StoreSliderValues == SliderValues \cup {0, 121}

StoreInit == \E s \in AllStores : Launched(s)

StorePollFrame == \E t \in StoreClock : Poll(t)
StoreEditIntervalFrame == \E t \in StoreClock, v \in StoreSliderValues : EditInterval(t, v)
StoreEditShortBreakFrame == \E t \in StoreClock, v \in StoreSliderValues : EditShortBreak(t, v)
StoreEditLongBreakFrame == \E t \in StoreClock, v \in StoreSliderValues : EditLongBreak(t, v)
StoreStartFrame == \E t \in StoreClock : Start(t)
StoreStopFrame == \E t \in StoreClock : Stop(t)
RelaunchStep == \E t \in StoreClock : Relaunch(t)

StoreNext ==
    \/ StorePollFrame
    \/ StoreEditIntervalFrame
    \/ StoreEditShortBreakFrame
    \/ StoreEditLongBreakFrame
    \/ StoreStartFrame
    \/ StoreStopFrame
    \/ Save
    \/ RelaunchStep

SpecStore == StoreInit /\ [][StoreNext]_vars

\* --------------------------------------------------------- SpecFormat
\* The countdown label over a wide range of time left: the timer is running
\* in any mode with the longest periods and d seconds left, and frames
\* happen at the same instant or an hour and a second later.
FormatSteps == {0, 3601}

FormatClock == { t \in { now + s : s \in FormatSteps } : t <= MaxFormatTime }

\* the state after a frame at clock reading 0 that found d seconds left
Running(mode, d) ==
    LET a == [ interval_period |-> 120,
               long_break_period |-> 120,
               short_break_period |-> 30,
               session_count |-> 0,
               current_mode |-> mode,
               ends_at |-> Some(d) ]
    IN  /\ interval_period = a.interval_period
        /\ long_break_period = a.long_break_period
        /\ short_break_period = a.short_break_period
        /\ session_count = a.session_count
        /\ current_mode = a.current_mode
        /\ ends_at = a.ends_at
        /\ now = 0
        /\ time_left = TimeLeft(a, 0)
        /\ input = "none"
        /\ storage = EmptyStore
        /\ repaint = Repaints(a, 0)
        /\ rendered = Label(a, a, 0)

FormatInit == \E mode \in PomodoroMode, d \in 0..MaxRemaining : Running(mode, d)

FormatPollFrame == \E t \in FormatClock : Poll(t)

FormatNext == FormatPollFrame

SpecFormat == FormatInit /\ [][FormatNext]_vars

\* ----------------------------------------------------------- SpecLive
\* The user never clicks Stop, and the host keeps calling update while the
\* clock advances: every frame ends with request_repaint_after(1 s), so a
\* frame at a later clock reading always follows, as long as the explored
\* time allows one.
LiveClock == { t \in { now + s : s \in Steps } : t <= MaxLiveTime }

LivePollFrame == \E t \in LiveClock : Poll(t)
LiveEditIntervalFrame == \E t \in LiveClock, v \in SliderValues : EditInterval(t, v)
LiveEditShortBreakFrame == \E t \in LiveClock, v \in SliderValues : EditShortBreak(t, v)
LiveEditLongBreakFrame == \E t \in LiveClock, v \in SliderValues : EditLongBreak(t, v)
LiveStartFrame == \E t \in LiveClock : Start(t)

\* a frame without input at a later clock reading
LiveTick == \E t \in LiveClock : t > now /\ Poll(t)

LiveNext ==
    \/ LivePollFrame
    \/ LiveEditIntervalFrame
    \/ LiveEditShortBreakFrame
    \/ LiveEditLongBreakFrame
    \/ LiveStartFrame

LiveInit == \E s \in LiveStores : Launched(s)

SpecLive == LiveInit /\ [][LiveNext]_vars /\ WF_vars(LiveTick)

\* ------------------------------------------------------------- claims
\* the latest frame found the interval elapsed (time_left < 0)
FoundElapsed == is_some(time_left) /\ unwrap(time_left) < 0
\* the frame being taken finds the interval elapsed
FindsElapsed == is_some(time_left') /\ unwrap(time_left') < 0

\* C1: a frame that finds the interval elapsed takes Work to LongBreak when
\* the incremented session_count is divisible by 4 and to ShortBreak
\* otherwise, and takes either break to Work; no other frame changes the mode.
C1_ModeTransition ==
    [][ IF FindsElapsed
        THEN current_mode' =
               (IF current_mode = "Work"
                THEN (IF (session_count + 1) % 4 = 0 THEN "LongBreak" ELSE "ShortBreak")
                ELSE "Work")
        ELSE current_mode' = current_mode ]_vars

\* a frame has just taken Work to LongBreak
C1_Witness == FoundElapsed /\ current_mode = "LongBreak" /\ session_count = 4

\* C2: in a run from Work with session_count = 0 that is never stopped the
\* session_count counts the Work completions (it moves only when Work is
\* left, by one), completion k leads to LongBreak when k is a multiple of 4
\* and to ShortBreak otherwise, and every break leads back to Work.
C2_FourthWorkIsLongBreak ==
    /\ [](current_mode = "LongBreak" => session_count % 4 = 0 /\ session_count >= 4)
    /\ [](current_mode = "ShortBreak" => session_count % 4 \in 1..3)
    /\ [][ /\ session_count' # session_count
              <=> (current_mode = "Work" /\ current_mode' # "Work")
           /\ session_count' # session_count => session_count' = session_count + 1
           /\ (current_mode # "Work" /\ current_mode' # current_mode)
              => current_mode' = "Work" ]_vars

\* the pattern has repeated: the 8th Work completion led to LongBreak
C2_Witness == FoundElapsed /\ current_mode = "LongBreak" /\ session_count = 8

\* C3: session_count increases only in a frame that finds the interval
\* elapsed while the mode is Work, and then by exactly 1.
C3_CountOnlyOnWorkCompletion ==
    [][ session_count' > session_count
        => /\ FindsElapsed
           /\ current_mode = "Work"
           /\ session_count' = session_count + 1 ]_vars

\* a Work interval has just completed and has been counted
C3_Witness == FoundElapsed /\ current_mode = "ShortBreak" /\ session_count = 1

\* C4: Stop is handled only while the timer is running and leaves it idle
\* with session_count = 0.
C4_StopResets ==
    [][ input' = "stop"
        => is_some(ends_at) /\ is_none(ends_at') /\ session_count' = 0 ]_vars

\* Stop has been handled during a long break, that is with session_count >= 4
C4_Witness ==
    input = "stop" /\ current_mode = "LongBreak" /\ is_none(ends_at) /\ session_count = 0

\* C5: a frame that finds the timer idle or deadline - now >= 0 runs no
\* transition: the mode is unchanged, a frame without input changes nothing,
\* and the deadline and the count change only by Start and Stop.
C5_NoChangeUntilElapsed ==
    [][ ~ FindsElapsed
        => /\ current_mode' = current_mode
           /\ input' = "none" => App' = App
           /\ input' \notin {"start", "stop"} => ends_at' = ends_at
           /\ input' # "stop" => session_count' = session_count ]_vars

\* a frame without input has run exactly at the deadline
C5_Witness == input = "none" /\ time_left = Some(0) /\ ends_at = Some(now)

\* C6: a frame at time now that finds the interval elapsed sets the deadline
\* to now plus the configured minutes of the new mode.
C6_DeadlineFromPollTime ==
    [][ FindsElapsed
        => ends_at' = Some(now' + 60 *
             (CASE current_mode' = "Work" -> interval_period'
                [] current_mode' = "ShortBreak" -> short_break_period'
                [] current_mode' = "LongBreak" -> long_break_period')) ]_vars

\* started at 0 with 25/5 minutes and polled at 25m+1s
C6_Witness ==
    /\ now = 25 * 60 + 1 /\ time_left = Some(-1)
    /\ interval_period = 25 /\ short_break_period = 5
    /\ session_count = 1 /\ current_mode = "ShortBreak"
    /\ ends_at = Some(25 * 60 + 1 + 5 * 60)

\* C7: Start at time now sets the deadline to now plus the configured minutes
\* of the current mode, whichever mode the idle timer retained.
C7_StartUsesCurrentMode ==
    input = "start"
    => ends_at = Some(now + 60 *
         (CASE current_mode = "Work" -> interval_period
            [] current_mode = "ShortBreak" -> short_break_period
            [] current_mode = "LongBreak" -> long_break_period))

\* C8: no frame changes interval_period while the timer is running,
\* whatever the mode.
C8_WorkLockedWhileRunning ==
    [][ interval_period' # interval_period => is_none(ends_at) ]_vars

\* C8 as amended: no frame changes interval_period while the timer is
\* running in mode Work.
C8_WorkLockedWhileRunningWork ==
    [][ interval_period' # interval_period
        => ~ (is_some(ends_at) /\ current_mode = "Work") ]_vars

\* the Interval slider has been dragged during a running short break
C8_Witness ==
    /\ input = "interval" /\ current_mode = "ShortBreak"
    /\ is_some(time_left) /\ unwrap(time_left) >= 0

\* C9: no frame that starts with the timer running changes the period of
\* the mode that is running.
C9_RunningModeLocked ==
    [][ is_some(ends_at)
        => /\ current_mode = "Work" => interval_period' = interval_period
           /\ current_mode = "ShortBreak" => short_break_period' = short_break_period
           /\ current_mode = "LongBreak" => long_break_period' = long_break_period ]_vars

\* a slider of another mode has been dragged during a running long break
C9_Witness ==
    /\ input = "short_break" /\ current_mode = "LongBreak"
    /\ is_some(time_left) /\ unwrap(time_left) >= 0

\* C10: in every idle state all three sliders are enabled.
C10_IdleAllEditable ==
    is_none(ends_at)
    => /\ IntervalSliderEnabled(App)
       /\ ShortBreakSliderEnabled(App)
       /\ LongBreakSliderEnabled(App)

\* C11: saving writes the four persisted fields as they are, and launching
\* from a saved record gives those four fields back with mode Work and no
\* deadline, whatever the mode and deadline were when it was saved.
C11_SaveLoadRoundTrip ==
    [][ /\ storage' # storage
           => /\ storage'.kind = "record"
              /\ DOMAIN storage'.fields = PersistedFields
              /\ storage'.fields["interval_period"] = interval_period
              /\ storage'.fields["short_break_period"] = short_break_period
              /\ storage'.fields["long_break_period"] = long_break_period
              /\ storage'.fields["session_count"] = session_count
        /\ (input' = "new" /\ storage.kind = "record"
              /\ DOMAIN storage.fields = PersistedFields)
           => /\ interval_period' = storage.fields["interval_period"]
              /\ short_break_period' = storage.fields["short_break_period"]
              /\ long_break_period' = storage.fields["long_break_period"]
              /\ session_count' = storage.fields["session_count"]
              /\ current_mode' = "Work"
              /\ ends_at' = None ]_vars

\* launched from a record saved during a long break (session_count 4 is
\* reached only by a transition to LongBreak)
C11_Witness ==
    /\ input = "new" /\ storage.kind = "record"
    /\ DOMAIN storage.fields = PersistedFields
    /\ storage.fields["session_count"] = 4 /\ session_count = 4
    /\ current_mode = "Work" /\ ends_at = None

\* C12: the app just constructed is idle in Work; without storage, without
\* a stored value or with a value that does not deserialize it has the
\* defaults 25/5/15 and session_count 0; from a record it has the stored
\* fields, and the default of every field the record lacks.
C12_LoadNeverFails ==
    input = "new"
    => /\ current_mode = "Work" /\ ends_at = None
       /\ storage.kind # "record"
          => /\ interval_period = 25 /\ short_break_period = 5
             /\ long_break_period = 15 /\ session_count = 0
       /\ storage.kind = "record"
          => LET f == storage.fields
                 has(n) == n \in DOMAIN f
             IN  /\ interval_period = IF has("interval_period") THEN f["interval_period"] ELSE 25
                 /\ short_break_period = IF has("short_break_period") THEN f["short_break_period"] ELSE 5
                 /\ long_break_period = IF has("long_break_period") THEN f["long_break_period"] ELSE 15
                 /\ session_count = IF has("session_count") THEN f["session_count"] ELSE 0

\* launched again, after a minute, from a record that has a session_count
\* but no interval_period
C12_Witness ==
    /\ input = "new" /\ now = 61 /\ storage.kind = "record"
    /\ DOMAIN storage.fields = {"session_count", "short_break_period"}
    /\ storage.fields["session_count"] = 2 /\ session_count = 2
    /\ interval_period = 25 /\ long_break_period = 15

\* C13: every frame, idle or running, with or without a transition, ends
\* with a request to repaint after at most 1 second, and every frame that
\* changes the mode also requests an immediate repaint.
C13_RepaintRequests ==
    [][ /\ is_some(repaint'.after) /\ unwrap(repaint'.after) <= 1
        /\ current_mode' # current_mode => repaint'.now ]_vars

\* a frame has run a transition and requested both repaints
C13_Witness == FoundElapsed /\ repaint.now /\ repaint.after = Some(1)

\* C14: in every state reached from the defaults or from a stored record,
\* by edits, Start, Stop, frames, saves and launches, the three periods are
\* within 1..120, 1..30 and 1..120 and session_count is a natural number.
C14_SettingsInRange ==
    /\ interval_period \in 1..120
    /\ short_break_period \in 1..30
    /\ long_break_period \in 1..120
    /\ session_count \in Nat

\* a slider has been dragged after a transition in a run launched from a
\* stored record
C14_Witness ==
    /\ input = "interval" /\ interval_period = 2 /\ session_count = 4
    /\ storage.kind = "record"

\* the number a text of digits with an optional sign stands for
RECURSIVE NaturalOf(_)
NaturalOf(text) ==
    IF Len(text) = 0 THEN 0
    ELSE LET last == text[Len(text)]
             value == CHOOSE k \in 0..9 :
                        << "0", "1", "2", "3", "4", "5", "6", "7", "8", "9" >>[k + 1] = last
         IN  NaturalOf(SubSeq(text, 1, Len(text) - 1)) * 10 + value
NumberOf(text) == IF text[1] = "-" THEN - NaturalOf(Tail(text)) ELSE NaturalOf(text)
Abs(x) == IF x < 0 THEN - x ELSE x

\* C15: for the time left d and the mode m of the label, the hours field is
\* the whole hours of d, the minutes field the whole minutes of d (not
\* reduced modulo 60), the seconds field what remains of d after the whole
\* minutes, and the label that of m; for d = 90 s in Work the fields are
\* 0, 1, 30 and "Work"; for d of an hour or more the minutes field is >= 60.
\* (Whole hours and minutes of a negative d are counted toward zero, and
\* the seconds field then is negative.)
C15_FormatFields ==
    is_some(rendered)
    => LET d == unwrap(time_left)
           text == unwrap(rendered).text
           h == NumberOf(text.hours)
           m == NumberOf(text.minutes)
           sec == NumberOf(text.seconds)
       IN  /\ Abs(h) * 3600 <= Abs(d) /\ Abs(d) < (Abs(h) + 1) * 3600 /\ h * d >= 0
           /\ Abs(m) * 60 <= Abs(d) /\ Abs(d) < (Abs(m) + 1) * 60 /\ m * d >= 0
           /\ Abs(sec) < 60 /\ m * 60 + sec = d
           /\ text.mode = (CASE current_mode = "Work" -> "Work"
                             [] current_mode = "ShortBreak" -> "Short break"
                             [] current_mode = "LongBreak" -> "Long break")
           /\ (d = 90 /\ current_mode = "Work")
              => h = 0 /\ m = 1 /\ sec = 30 /\ text.mode = "Work"
           /\ d >= 3600 => m >= 60

\* a frame an hour and a second later has found 90 seconds left in Work
C15_Witness ==
    /\ now = 3601 /\ time_left = Some(90) /\ current_mode = "Work"
    /\ rendered = Some([ text |-> [ hours |-> << "0", "0" >>,
                                    minutes |-> << "0", "1" >>,
                                    seconds |-> << "3", "0" >>,
                                    mode |-> "Work" ],
                         color |-> << 58, 191, 240 >> ])

\* C16: a frame that handles Start changes only the deadline, and a frame
\* that handles Stop only the deadline and the session_count: the mode and
\* the three periods stay as they were.
C16_StartStopFrame ==
    [][ /\ input' = "start"
           => /\ is_none(ends_at) /\ is_some(ends_at')
              /\ session_count' = session_count
        /\ input' \in {"start", "stop"}
           => /\ current_mode' = current_mode
              /\ interval_period' = interval_period
              /\ short_break_period' = short_break_period
              /\ long_break_period' = long_break_period ]_vars

\* Start has been handled in the short break mode a Stop had left
C16_Witness == input = "start" /\ current_mode = "ShortBreak" /\ is_some(ends_at)

\* C17: a frame that finds the interval elapsed takes one transition however
\* late it is, the new deadline is at least a minute after the clock
\* reading, and a further frame at the same instant takes no transition.
C17_OneTransitionPerFrame ==
    [][ /\ FindsElapsed
           => /\ unwrap(ends_at') >= now' + 60
              /\ IF current_mode = "Work"
                 THEN current_mode' \in {"ShortBreak", "LongBreak"}
                      /\ session_count' = session_count + 1
                 ELSE current_mode' = "Work" /\ session_count' = session_count
        /\ (FoundElapsed /\ now' = now) => ~ FindsElapsed ]_vars

\* a frame 125 s after the deadline of a 1-minute interval has taken one
\* transition, to a deadline a minute after the frame
C17_Witness ==
    /\ time_left = Some(-125) /\ ends_at = Some(now + 60)
    /\ current_mode = "ShortBreak" /\ session_count = 1

DeadlineInSight == is_some(ends_at) /\ unwrap(ends_at) + 30 <= MaxLiveTime

====
